---- MODULE Spec2Model ----
(***************************************************************************)
(* A model of the crypto price agent (src/crypto.py): the two tools the    *)
(* agent may call (get_crypto_price, list_all_binance_symbols) and the     *)
(* Streamlit script that is re-run on every user interaction.              *)
(*                                                                         *)
(* Text is a sequence of one-character strings; a literal of the source    *)
(* that holds no line break (such as ": $") is kept as one element.        *)
(***************************************************************************)
EXTENDS Integers, Sequences, FiniteSets, TLC

VARIABLES
    \* ---- get_crypto_price (one call of the tool)
    ppc,          \* position in get_crypto_price
    symbols,      \* the argument
    symbol_list,  \* line 81
    results,      \* line 82
    idx,          \* how many symbols the for loop has handled
    priceCalls,   \* the network calls issued so far: <<symbol, outcome>>
    priceRet,     \* the returned text, None before the return
    priceRequests, \* the calls of get_crypto_price so far, this one included
    fetched,      \* the symbols the earlier calls of the tool have requested
    \* ---- list_all_binance_symbols (one call of the tool)
    lpc,          \* position in list_all_binance_symbols
    listResp,     \* what the network call gave, None before it
    listCalls,    \* the number of network calls issued
    listRet,      \* the returned text, None before the return
    \* ---- the process the script runs in
    envKey,       \* os.getenv("GEMINI_API_KEY"): "absent", "empty" or "set"
    secretsKey,   \* st.secrets: "absent", "set", or "raises" (no secrets file)
    AUDIO_RECORDER_AVAILABLE,
    \* ---- st.session_state and the widgets of the session
    audio_enabled,   \* "unset", "False" or "True"
    hasHistory,      \* "history" in st.session_state
    history,
    last_audio_hash,
    recorderValue,   \* what audio_recorder returns: None or the last recording
    uploadValue,     \* what st.file_uploader returns: None or the file
    \* ---- one script run
    pc,
    clicked,         \* st.button of line 217
    submit,          \* st.form_submit_button of line 236
    user_input,      \* st.text_input of line 234
    audio_bytes,     \* the script's variable: "undefined" until line 278 binds it
    rendered,        \* what the run has put on the page, in order
    keyLookups,      \* where get_gemini_key has looked, in order
    lastExit,        \* how the last run ended
    submissions,     \* the user's submissions so far (text, recording, upload)
    shown,           \* the entries the conversation display of this run has rendered
    \* ---- what has happened in the session
    agentCalls,      \* calls of run_agent_sync
    recogCalls,      \* runs of the recognition code
    failedTurns,     \* <<index of a user turn, error text>> of agent calls that raised
    processed,       \* the hashes of the recordings handled by lines 290-315, in order
    uploadRuns,      \* runs in which the present upload entered the handler of line 260
    synthFailed,     \* a speech synthesis of this run failed
    calls,           \* the calls of this run, in order: <<function, argument, outcome>>
    atStart,         \* the length of the history when this run started
    agentInFlight,   \* calls of run_agent_sync that have not returned or raised
    recogFailed,     \* the hashes of the recordings whose recognition raised
    \* ---- run_agent_sync (one call)
    apc,          \* position in run_agent_sync
    new_items,    \* result.new_items of line 135, None before Runner.run returns
    scanItems,    \* what the for loop of line 136 has still to look at
    response,     \* the value _call returns, None before it
    loopState,    \* the event loop of line 143: "none", "open" or "closed"
    agentExc,     \* the exception that is on its way out of the function, or None
    \* ---- script runs that overlap in one process
    rpc,          \* the position of each run
    lockOf,       \* the lock object the name _SESSION_LOCK is bound to in each run
    holder,       \* for each lock object the run that holds it, 0 when it is free
    appended,     \* the number of append_history calls each run has finished
    hasList       \* for each run: its session state holds "history"

priceVars == <<ppc, symbols, symbol_list, results, idx, priceCalls, priceRet,
               priceRequests, fetched>>
listVars == <<lpc, listResp, listCalls, listRet>>

procVars == <<envKey, secretsKey, AUDIO_RECORDER_AVAILABLE>>
sessionVars == <<audio_enabled, hasHistory, history, last_audio_hash, recorderValue, uploadValue>>
runVars == <<pc, clicked, submit, user_input, audio_bytes, rendered, keyLookups, lastExit,
             submissions, shown>>
logVars == <<agentCalls, recogCalls, failedTurns, processed, uploadRuns, synthFailed,
             calls, atStart, agentInFlight, recogFailed>>
uiVars == <<procVars, sessionVars, runVars, logVars>>

agentVars == <<apc, new_items, scanItems, response, loopState, agentExc>>
lockVars == <<rpc, lockOf, holder, appended, hasList>>

vars == <<priceVars, listVars, uiVars, agentVars, lockVars>>

None == "None"

\* ------------------------------------------------------------------ bounds
\* The longest argument of get_crypto_price that is explored.
MaxLen == 3
\* The calls of get_crypto_price in one process that are explored.
MaxRequests == 2
\* The longest result.new_items of an agent run that is explored.
MaxItems == 3
\* The append_history calls of one script run that are explored.
MaxAppends == 2

\* The longest exchangeInfo response that is explored, and how many of its
\* entries may have a status other than TRADING; responses of at most MaxShort
\* entries are explored with entries of every kind, malformed ones included.
MaxEntries == 22
MaxBreaks == 2
MaxShort == 3

\* The user's submissions (text, recording, upload) in one session.
MaxSubmissions == 3

\* ------------------------------------------------------------------ text
NL == "\n"
Chars == {"b", " ", ",", NL}
\* str.strip() removes these from both ends.
Whitespace == {" ", NL}

Strings(n) == UNION {[1..k -> Chars] : k \in 0..n}

\* str.split(sep): the pieces between the separators; "" gives [""].
RECURSIVE SplitFrom(_, _, _)
SplitFrom(s, sep, cur) ==
    IF s = <<>> THEN <<cur>>
    ELSE IF Head(s) = sep THEN <<cur>> \o SplitFrom(Tail(s), sep, <<>>)
    ELSE SplitFrom(Tail(s), sep, Append(cur, Head(s)))

Split(s, sep) == SplitFrom(s, sep, <<>>)

RECURSIVE LStrip(_)
LStrip(s) == IF s # <<>> /\ Head(s) \in Whitespace THEN LStrip(Tail(s)) ELSE s

RECURSIVE RStrip(_)
RStrip(s) ==
    IF s # <<>> /\ s[Len(s)] \in Whitespace THEN RStrip(SubSeq(s, 1, Len(s) - 1)) ELSE s

Strip(s) == RStrip(LStrip(s))

UpperChar(c) == IF c = "b" THEN "B" ELSE c
Upper(s) == [i \in 1..Len(s) |-> UpperChar(s[i])]

\* sep.join(parts)
RECURSIVE Join(_, _)
Join(parts, sep) ==
    IF parts = <<>> THEN <<>>
    ELSE IF Len(parts) = 1 THEN parts[1]
    ELSE parts[1] \o <<sep>> \o Join(Tail(parts), sep)

StartsWith(s, p) == Len(p) <= Len(s) /\ SubSeq(s, 1, Len(p)) = p

\* ------------------------------------------------------ price formatting
Digit(d) == CASE d = 0 -> "0" [] d = 1 -> "1" [] d = 2 -> "2" [] d = 3 -> "3"
              [] d = 4 -> "4" [] d = 5 -> "5" [] d = 6 -> "6" [] d = 7 -> "7"
              [] d = 8 -> "8" [] d = 9 -> "9"

\* The decimal digits of n, the most significant first, at least `width` of them.
RECURSIVE Digits(_, _)
Digits(n, width) ==
    IF n < 10 /\ width <= 1 THEN <<Digit(n)>>
    ELSE Append(Digits(n \div 10, width - 1), Digit(n % 10))

\* The "," of the format: a separator before every group of three digits.
RECURSIVE Grouped(_)
Grouped(ds) ==
    IF Len(ds) <= 3 THEN ds
    ELSE Grouped(SubSeq(ds, 1, Len(ds) - 3)) \o <<",">> \o SubSeq(ds, Len(ds) - 2, Len(ds))

\* f"{price:,.8f}" of a price given as whole units and 1e-8 units.
FormatPrice(p) == Grouped(Digits(p.whole, 1)) \o <<".">> \o Digits(p.frac, 8)

\* ------------------------------------------------------ get_crypto_price
\* What one `client.get` and the reading of its response can do (lines 87-90).
\*   get_raises:  client.get raises (timeout, connection error, invalid URL)
\*   json_raises: a response whose body is not JSON
\*   body:        a JSON body, with or without a "price" field, whose value
\*                float() accepts or not
\* str(e) of the exceptions raised here (httpx, the JSON decoder, float) is
\* one line of text.
Msgs == {<<"timed out">>, <<"connection refused">>}
Prices == {[whole |-> 43000, frac |-> 12000000], [whole |-> 0, frac |-> 7]}

PriceOutcomes ==
    [kind : {"get_raises"}, msg : Msgs]
    \cup [kind : {"json_raises"}, status : {502}, msg : {<<"timed out">>}]
    \cup [kind : {"body"}, status : {200, 400}, hasPrice : {FALSE}]
    \cup [kind : {"body"}, status : {200}, hasPrice : {TRUE}, priceOk : {TRUE},
           price : Prices]
    \cup [kind : {"body"}, status : {200}, hasPrice : {TRUE}, priceOk : {FALSE},
           msg : {<<"could not convert string to float">>}]

\* The cross mark of the source is written (x).
PriceLine(symbol, price) == symbol \o <<": $">> \o FormatPrice(price)
InvalidLine(symbol) == symbol \o <<": (x) Invalid or not found">>
ErrorLine(symbol, msg) == symbol \o <<": (x) Error - ">> \o msg

\* The body of the for loop with the try of line 85 left out: an exception of
\* the call or of the parsing leaves the loop and the function.
HandleSymbolNoTry(symbol, o) ==
    IF o.kind \in {"get_raises", "json_raises"}
    THEN [raised |-> TRUE, line |-> <<>>]
    ELSE IF o.status = 200 /\ o.hasPrice
         THEN IF o.priceOk
              THEN [raised |-> FALSE, line |-> PriceLine(symbol, o.price)]
              ELSE [raised |-> TRUE, line |-> <<>>]
         ELSE [raised |-> FALSE, line |-> InvalidLine(symbol)]

\* The body of the for loop (lines 85-95): what it appends to results.
HandleSymbol(symbol, o) ==
    IF o.kind \in {"get_raises", "json_raises"}
    THEN [raised |-> FALSE, line |-> ErrorLine(symbol, o.msg)]
    ELSE IF o.status = 200 /\ o.hasPrice
         THEN IF o.priceOk
              THEN [raised |-> FALSE, line |-> PriceLine(symbol, o.price)]
              ELSE [raised |-> FALSE, line |-> ErrorLine(symbol, o.msg)]
         ELSE [raised |-> FALSE, line |-> InvalidLine(symbol)]

\* Line 81 without the strip.
NormalizeNoStrip(tok) == Upper(tok)

\* s.strip().upper() of line 81.
Normalize(tok) == Upper(Strip(tok))

\* Line 81: [s.strip().upper() for s in symbols.split(",")]
SymbolList(s) == LET toks == Split(s, ",") IN [i \in 1..Len(toks) |-> Normalize(toks[i])]

\* Line 96.
PriceText(res) == <<"Prices:", NL>> \o Join(res, NL)

PriceIdle ==
    /\ ppc = "off"
    /\ symbols = <<>>
    /\ symbol_list = <<>>
    /\ results = <<>>
    /\ idx = 0
    /\ priceCalls = <<>>
    /\ priceRet = None
    /\ priceRequests = 0
    /\ fetched = {}

ListIdle ==
    /\ lpc = "off"
    /\ listResp = None
    /\ listCalls = 0
    /\ listRet = None

UIIdle ==
    /\ envKey = "absent" /\ secretsKey = "absent" /\ AUDIO_RECORDER_AVAILABLE = FALSE
    /\ audio_enabled = "unset" /\ hasHistory = FALSE /\ history = <<>>
    /\ last_audio_hash = None /\ recorderValue = None /\ uploadValue = None
    /\ pc = "off" /\ clicked = FALSE /\ submit = FALSE /\ user_input = <<>>
    /\ audio_bytes = "undefined" /\ rendered = <<>> /\ keyLookups = <<>>
    /\ lastExit = "none" /\ submissions = 0 /\ shown = <<>>
    /\ agentCalls = 0 /\ recogCalls = 0 /\ failedTurns = {} /\ processed = <<>>
    /\ uploadRuns = 0 /\ synthFailed = FALSE
    /\ calls = <<>> /\ atStart = 0 /\ agentInFlight = 0 /\ recogFailed = {}

AgentIdle ==
    /\ apc = "off" /\ new_items = None /\ scanItems = <<>> /\ response = None
    /\ loopState = "none" /\ agentExc = None

LockIdle ==
    /\ rpc = <<>> /\ lockOf = <<>> /\ holder = <<>> /\ appended = <<>> /\ hasList = <<>>

InitPrice ==
    /\ ListIdle
    /\ UIIdle
    /\ AgentIdle
    /\ LockIdle
    /\ ppc = "start"
    /\ symbols \in Strings(MaxLen)
    /\ symbol_list = <<>>
    /\ results = <<>>
    /\ idx = 0
    /\ priceCalls = <<>>
    /\ priceRet = None
    /\ priceRequests = 1
    /\ fetched = {}

\* Lines 80-83.
PriceSplit ==
    /\ ppc = "start"
    /\ symbol_list' = SymbolList(symbols)
    /\ results' = <<>>
    /\ ppc' = "loop"
    /\ UNCHANGED <<listVars, uiVars, agentVars, lockVars, symbols, idx, priceCalls, priceRet,
                   priceRequests,
                   fetched>>

\* One turn of the for loop with results kept from call to call: a symbol
\* that was requested before gets no network call.
PriceFetchCached ==
    /\ ppc = "loop"
    /\ idx < Len(symbol_list)
    /\ \E o \in PriceOutcomes :
        LET symbol == symbol_list[idx + 1]
            r == HandleSymbol(symbol, o)
            known == \/ symbol \in fetched
                     \/ \E c \in 1..Len(priceCalls) : priceCalls[c][1] = symbol
        IN /\ priceCalls' = IF known THEN priceCalls ELSE Append(priceCalls, <<symbol, o>>)
           /\ results' = Append(results, r.line)
           /\ idx' = idx + 1
           /\ ppc' = "loop"
    /\ UNCHANGED <<listVars, uiVars, agentVars, lockVars, symbols, symbol_list, priceRet,
                   priceRequests, fetched>>

\* One turn of the for loop (lines 84-95): one network call, one entry.
PriceFetch ==
    /\ ppc = "loop"
    /\ idx < Len(symbol_list)
    /\ \E o \in PriceOutcomes :
        LET symbol == symbol_list[idx + 1]
            r == HandleSymbol(symbol, o)
        IN /\ priceCalls' = Append(priceCalls, <<symbol, o>>)
           /\ IF r.raised
              THEN ppc' = "raised" /\ UNCHANGED <<results, idx>>
              ELSE /\ results' = Append(results, r.line)
                   /\ idx' = idx + 1
                   /\ ppc' = "loop"
    /\ UNCHANGED <<listVars, uiVars, agentVars, lockVars, symbols, symbol_list, priceRet,
                   priceRequests, fetched>>

\* Line 96.
PriceReturn ==
    /\ ppc = "loop"
    /\ idx = Len(symbol_list)
    /\ priceRet' = PriceText(results)
    /\ ppc' = "done"
    /\ UNCHANGED <<listVars, uiVars, agentVars, lockVars, symbols, symbol_list, results, idx,
                   priceCalls,
                   priceRequests, fetched>>

\* The agent calls the tool again with the same argument: the locals of
\* lines 81-82 are new, and nothing of the earlier call is left to the new one.
PriceAgain ==
    /\ ppc = "done"
    /\ priceRequests < MaxRequests
    /\ priceRequests' = priceRequests + 1
    /\ fetched' = fetched \cup {priceCalls[c][1] : c \in 1..Len(priceCalls)}
    /\ ppc' = "start"
    /\ symbol_list' = <<>>
    /\ results' = <<>>
    /\ idx' = 0
    /\ priceCalls' = <<>>
    /\ priceRet' = None
    /\ UNCHANGED <<listVars, uiVars, agentVars, lockVars, symbols>>

NextPrice == PriceSplit \/ PriceFetch \/ PriceReturn \/ PriceAgain

SpecPrice == InitPrice /\ [][NextPrice]_vars

\* ---- claims about get_crypto_price
Lines(text) == Split(text, NL)
InputTokens == Split(symbols, ",")
HasLineBreak(s) == \E i \in 1..Len(s) : s[i] = NL
IsFailure(o) == ~(o.kind = "body" /\ o.status = 200 /\ o.hasPrice /\ o.priceOk)
IsException(o) ==
    o.kind \in {"get_raises", "json_raises"} \/ (o.kind = "body" /\ o.hasPrice /\ ~o.priceOk)

\* After the header, one line per input token, in input order, the k-th
\* starting with the trimmed, upper-cased k-th token.
OneLinePerToken ==
    LET ls == Lines(priceRet)
    IN /\ Len(ls) = Len(InputTokens) + 1
       /\ ls[1] = <<"Prices:">>
       /\ \A k \in 1..Len(InputTokens) :
            StartsWith(ls[k + 1], Upper(Strip(InputTokens[k])))

\* C1 as stated: for every input string and every outcome of the network
\* calls, the returned text holds after the 'Prices:' header exactly one
\* line per comma-separated token, in input order, the k-th line starting
\* with the trimmed, upper-cased k-th token.
C1_OneLinePerTokenAlways == ppc = "done" => OneLinePerToken

\* No trimmed token and no exception text of the request holds a line break.
NoLineBreaks ==
    /\ \A k \in 1..Len(InputTokens) : ~HasLineBreak(Strip(InputTokens[k]))
    /\ \A c \in 1..Len(priceCalls) :
         IsException(priceCalls[c][2]) => ~HasLineBreak(priceCalls[c][2].msg)

\* C1 amended: the returned text is the header followed by one entry per
\* token, joined by line breaks, in input order, the k-th entry starting with
\* the trimmed, upper-cased k-th token; when no trimmed token and no exception
\* text holds a line break, these entries are exactly the lines of the text.
C1_OneEntryPerToken ==
    ppc = "done" =>
        /\ Len(results) = Len(InputTokens)
        /\ \A k \in 1..Len(InputTokens) :
             StartsWith(results[k], Upper(Strip(InputTokens[k])))
        /\ priceRet = <<"Prices:", NL>> \o Join(results, NL)
        /\ (NoLineBreaks => OneLinePerToken)

\* C1 witness: a finished request of several tokens, one of them trimmed,
\* with a price and an exception among its outcomes and no line break.
C1_Witness ==
    /\ ppc = "done"
    /\ NoLineBreaks
    /\ Len(InputTokens) >= 2
    /\ \E k \in 1..Len(InputTokens) : Strip(InputTokens[k]) # InputTokens[k]
    /\ \E c \in 1..Len(priceCalls) : IsException(priceCalls[c][2])
    /\ \E c \in 1..Len(priceCalls) : ~IsFailure(priceCalls[c][2])

\* The entry a symbol gets when it is requested alone and the network
\* answers as it did in this request.
AloneEntry(symbol, o) ==
    IF o.kind \in {"get_raises", "json_raises"} THEN ErrorLine(symbol, o.msg)
    ELSE IF o.status # 200 \/ ~o.hasPrice THEN InvalidLine(symbol)
    ELSE IF o.priceOk THEN PriceLine(symbol, o.price)
    ELSE ErrorLine(symbol, o.msg)

\* C2: a failure on one symbol (non-200, missing price, exception of the call
\* or of the parsing) changes only that symbol's line: the function never
\* raises, every token is requested, and the returned text holds for every
\* symbol the entry it gets when requested alone.
C2_FailureIsolated ==
    /\ ppc # "raised"
    /\ ppc = "done" =>
        /\ Len(priceCalls) = Len(InputTokens)
        /\ priceRet = <<"Prices:", NL>> \o
              Join([k \in 1..Len(InputTokens) |->
                      AloneEntry(Upper(Strip(InputTokens[k])), priceCalls[k][2])], NL)

\* C2 witness: a finished request in which a symbol failed and a later
\* symbol was still resolved to a price.
C2_Witness ==
    /\ ppc = "done"
    /\ \E j, k \in 1..Len(priceCalls) :
         /\ j < k
         /\ IsFailure(priceCalls[j][2])
         /\ ~IsFailure(priceCalls[k][2])


\* ---------------------------------------------- list_all_binance_symbols
\* symbols[:20] of line 107
SampleSize == 20

Min(a, b) == IF a <= b THEN a ELSE b

\* The i-th symbol name of a response.
SymbolName(i) == <<"S">> \o Digits(i, 1)

\* An entry of data["symbols"]; a malformed one lacks a field.
Entry(i, kind) ==
    [hasStatus |-> kind # "nostatus",
     status |-> IF kind \in {"trading", "nosymbol_trading"} THEN "TRADING" ELSE "BREAK",
     hasSymbol |-> kind \notin {"nosymbol_trading", "nosymbol_break"},
     symbol |-> SymbolName(i)]

\* The sets of at most k positions of 1..n.
RECURSIVE Positions(_, _)
Positions(n, k) ==
    IF k = 0 THEN {{}}
    ELSE LET smaller == Positions(n, k - 1)
         IN smaller \cup {S \cup {i} : S \in smaller, i \in 1..n}

EntryKinds == {"trading", "break", "nostatus", "nosymbol_trading", "nosymbol_break"}

\* A well-formed response body of n entries: those at `breaks` are not trading.
Entries(n, breaks) ==
    [i \in 1..n |-> IF i \in breaks THEN Entry(i, "break") ELSE Entry(i, "trading")]

\* The short response bodies, of entries of every kind.
ShortBodies ==
    UNION {{[i \in 1..k |-> Entry(i, f[i])] : f \in [1..k -> EntryKinds]} : k \in 0..MaxShort}

\* What `client.get` and `response.json()` can give (lines 103-104).
ListOutcomes ==
    [kind : {"get_raises"}, msg : Msgs]
    \cup [kind : {"json_raises"}, msg : {<<"Expecting value">>}]
    \cup [kind : {"body"}, hasSymbols : {FALSE}, entries : {<<>>}]
    \cup [kind : {"body"}, hasSymbols : {TRUE}, entries : ShortBodies]
    \cup {[kind |-> "body", hasSymbols |-> TRUE, entries |-> Entries(n, breaks)] :
            n \in 0..MaxEntries, breaks \in Positions(MaxEntries, MaxBreaks)}

\* The list comprehension of line 105: the names of the TRADING entries in
\* response order; reading a missing field raises KeyError.
RECURSIVE TradingSymbols(_)
TradingSymbols(entries) ==
    IF entries = <<>> THEN [raised |-> FALSE, symbols |-> <<>>]
    ELSE LET e == Head(entries)
             rest == TradingSymbols(Tail(entries))
         IN IF ~e.hasStatus THEN [raised |-> TRUE, msg |-> <<"'status'">>]
            ELSE IF e.status # "TRADING" THEN rest
            ELSE IF ~e.hasSymbol THEN [raised |-> TRUE, msg |-> <<"'symbol'">>]
            ELSE IF rest.raised THEN rest
            ELSE [raised |-> FALSE, symbols |-> <<e.symbol>> \o rest.symbols]

\* symbols[:21], a slice one too long.
SampleOffByOne(syms) == SubSeq(syms, 1, Min(SampleSize + 1, Len(syms)))

\* symbols[:20] of line 107.
Sample(syms) == SubSeq(syms, 1, Min(SampleSize, Len(syms)))

\* Line 108.
ListText(total, sample) ==
    <<"Total trading pairs: ">> \o Digits(total, 1) \o <<NL, "Sample: ">>
        \o Join(sample, ", ") \o <<", ...">>

\* The body of the try (lines 102-108) after the network call.
ListTryBody(o) ==
    IF o.kind \in {"get_raises", "json_raises"} THEN [raised |-> TRUE, msg |-> o.msg]
    ELSE IF ~o.hasSymbols THEN [raised |-> TRUE, msg |-> <<"'symbols'">>]
    ELSE LET t == TradingSymbols(o.entries)
         IN IF t.raised THEN t
            ELSE [raised |-> FALSE, text |-> ListText(Len(t.symbols), Sample(t.symbols))]

\* Lines 101-110 without the except clause.
ListResultNoExcept(o) == ListTryBody(o)

\* Lines 101-110: the try body, and the except clause of lines 109-110.
ListResult(o) ==
    LET b == ListTryBody(o)
    IN IF b.raised
       THEN [raised |-> FALSE, text |-> <<"Error fetching symbols: ">> \o b.msg]
       ELSE b

InitList ==
    /\ PriceIdle
    /\ UIIdle
    /\ AgentIdle
    /\ LockIdle
    /\ lpc = "start"
    /\ listResp = None
    /\ listCalls = 0
    /\ listRet = None

\* Lines 102-104: the one network call and the reading of its body.
ListCall ==
    /\ lpc = "start"
    /\ \E o \in ListOutcomes : listResp' = o
    /\ listCalls' = listCalls + 1
    /\ lpc' = "called"
    /\ UNCHANGED <<priceVars, uiVars, agentVars, lockVars, listRet>>

\* Lines 105-110.
ListFinish ==
    /\ lpc = "called"
    /\ LET r == ListResult(listResp)
       IN IF r.raised
          THEN lpc' = "raised" /\ UNCHANGED listRet
          ELSE lpc' = "done" /\ listRet' = r.text
    /\ UNCHANGED <<priceVars, uiVars, agentVars, lockVars, listResp, listCalls>>

NextList == ListCall \/ ListFinish

SpecList == InitList /\ [][NextList]_vars

\* ---- claims about list_all_binance_symbols
\* A successful call: a JSON body whose "symbols" entries all have a status
\* and, when TRADING, a symbol.
ListSuccess ==
    /\ listResp.kind = "body"
    /\ listResp.hasSymbols
    /\ \A i \in 1..Len(listResp.entries) :
         LET e == listResp.entries[i]
         IN e.hasStatus /\ (e.status = "TRADING" => e.hasSymbol)

IsTrading(e) == e.status = "TRADING"
TradingEntries == SelectSeq(listResp.entries, IsTrading)

\* The symbols of the sample, read back from the returned text.
SampleOf(text) ==
    LET from == CHOOSE i \in 1..Len(text) : text[i] = "Sample: "
        body == SubSeq(text, from + 1, Len(text) - 1)
    IN IF body = <<>> THEN <<>> ELSE Split(body, ", ")

\* C7: on a successful call the reported total is the number of entries
\* whose status is TRADING, the sample is the first min(20, total) of them in
\* response order, and the sample never holds more than 20 symbols.
C7_TotalAndSample ==
    (lpc = "done" /\ ListSuccess) =>
        LET total == Len(TradingEntries)
            sample == SampleOf(listRet)
        IN /\ StartsWith(listRet, <<"Total trading pairs: ">> \o Digits(total, 1) \o <<NL>>)
           /\ Len(sample) = Min(20, total)
           /\ Len(sample) <= 20
           /\ \A k \in 1..Len(sample) : sample[k] = TradingEntries[k].symbol

\* C7 witness: a successful call with more than 20 trading entries and a
\* non-trading entry among the first 20 of the response.
C7_Witness ==
    /\ lpc = "done"
    /\ ListSuccess
    /\ Len(TradingEntries) > 20
    /\ \E i \in 1..20 : listResp.entries[i].status # "TRADING"

ListFailure == ~ListSuccess

\* C8: the function never raises; on a failed call, an unparsable body or a
\* body without the expected fields it returns one text starting with
\* 'Error fetching symbols:'; it makes exactly one network call in every case.
C8_NeverRaises ==
    /\ lpc # "raised"
    /\ lpc \in {"called", "done"} => listCalls = 1
    /\ (lpc = "done" /\ ListFailure) => StartsWith(listRet, <<"Error fetching symbols: ">>)

\* C8 witness: a finished call on a body in which an entry after a trading
\* one lacks a field.
C8_Witness ==
    /\ lpc = "done"
    /\ listResp.kind = "body"
    /\ listResp.hasSymbols
    /\ ListFailure
    /\ Len(listResp.entries) >= 2
    /\ listResp.entries[1].hasStatus /\ listResp.entries[1].hasSymbol
    /\ listResp.entries[1].status = "TRADING"
    /\ StartsWith(listRet, <<"Error fetching symbols: ">>)


\* ------------------------------------------------------ the Streamlit script
\* The script of src/crypto.py is run from its first line on the page load and
\* on every interaction with a widget the last run rendered.
Samples == {"A", "B"}
UploadFiles == {"F"}
TextInputs == {<<>>, <<" ">>, <<"b">>, <<" ", "b">>}

\* hashlib.sha256(audio_bytes).hexdigest(): distinct bytes, distinct digests.
Hash(sample) == CASE sample = "A" -> "sha256(A)" [] sample = "B" -> "sha256(B)"

\* What run_agent_sync does: it returns the reply text or raises.
AgentOutcomes ==
    [kind : {"reply"}, text : {<<"reply">>}]
    \cup [kind : {"raises"}, msg : {<<"quota exceeded">>}]

\* What lines 261-268 and 293-301 do: a recognised text or an exception.
RecogOutcomes ==
    [kind : {"text"}, text : {<<"price of btc">>}]
    \cup [kind : {"raises"}, msg : {<<"could not understand audio">>}]

\* What gTTS, components.html and st.audio do in speak_text_background.
SynthOutcomes == [gen : {"ok", "fail"}, html : {"ok", "fail"}, audio : {"ok", "fail"}]

\* Lines 44-53: the environment first, the secrets file only after it.
get_gemini_key(env, secrets) ==
    IF env = "set" THEN [key |-> "env key", lookups |-> <<"env">>]
    ELSE IF secrets = "set" THEN [key |-> "secrets key", lookups |-> <<"env", "secrets">>]
    ELSE [key |-> None, lookups |-> <<"env", "secrets">>]

\* Lines 129-131 with the list set anew on every call.
append_history_reset(h, role, text) == <<<<role, text>>>>

\* Lines 127-131.
append_history(h, role, text) == Append(h, <<role, text>>)

\* Lines 155-205: what the function renders, and whether it raises.
speak_text_background(o) ==
    IF o.gen = "fail" THEN [raised |-> FALSE, out |-> <<>>]
    ELSE IF o.html = "ok"
         THEN [raised |-> FALSE,
               out |-> <<"tts html">> \o (IF o.audio = "ok" THEN <<"tts audio">> ELSE <<>>)]
         ELSE [raised |-> FALSE, out |-> IF o.audio = "ok" THEN <<"tts audio">> ELSE <<>>]

SynthFails(o) == o.gen = "fail" \/ o.html = "fail" \/ o.audio = "fail"

\* f"Agent error: {e}" of line 247.
AgentErrorText(msg) == <<"Agent error: ">> \o msg

InitUI ==
    /\ PriceIdle
    /\ ListIdle
    /\ AgentIdle
    /\ LockIdle
    /\ envKey \in {"absent", "empty", "set"}
    /\ secretsKey \in {"absent", "set", "raises"}
    /\ AUDIO_RECORDER_AVAILABLE \in BOOLEAN
    /\ audio_enabled = "unset" /\ hasHistory = FALSE /\ history = <<>>
    /\ last_audio_hash = None /\ recorderValue = None /\ uploadValue = None
    /\ pc = "idle" /\ clicked = FALSE /\ submit = FALSE /\ user_input = <<>>
    /\ audio_bytes = "undefined" /\ rendered = <<>> /\ keyLookups = <<>>
    /\ lastExit = "none" /\ submissions = 0 /\ shown = <<>>
    /\ agentCalls = 0 /\ recogCalls = 0 /\ failedTurns = {} /\ processed = <<>>
    /\ uploadRuns = 0 /\ synthFailed = FALSE
    /\ calls = <<>> /\ atStart = 0 /\ agentInFlight = 0 /\ recogFailed = {}

Rendered(x) == \E i \in 1..Len(rendered) : rendered[i] = x

\* A run starts: a fresh namespace and an empty page.
BeginRun ==
    /\ pc = "idle"
    /\ pc' = "startup"
    /\ rendered' = <<>>
    /\ keyLookups' = <<>>
    /\ audio_bytes' = "undefined"
    /\ synthFailed' = FALSE
    /\ shown' = <<>>
    /\ calls' = <<>>
    /\ atStart' = Len(history)
    /\ UNCHANGED <<priceVars, listVars, agentVars, lockVars, procVars, audio_enabled, hasHistory,
                   history,
                   last_audio_hash, lastExit, agentCalls, recogCalls, failedTurns, processed,
                   agentInFlight, recogFailed>>

\* The browser opens the page: the first run of the session.
LoadPage ==
    /\ BeginRun
    /\ lastExit = "none"
    /\ clicked' = FALSE /\ submit' = FALSE /\ user_input' = <<>>
    /\ UNCHANGED <<recorderValue, uploadValue, submissions, uploadRuns>>

\* The user clicks the button of line 217.
ClickEnable ==
    /\ BeginRun
    /\ Rendered("button")
    /\ clicked' = TRUE /\ submit' = FALSE /\ user_input' = <<>>
    /\ UNCHANGED <<recorderValue, uploadValue, submissions, uploadRuns>>

\* The user submits the form of line 231 (Enter or Send).
SubmitText ==
    /\ BeginRun
    /\ Rendered("form")
    /\ submissions < MaxSubmissions
    /\ submissions' = submissions + 1
    /\ clicked' = FALSE /\ submit' = TRUE
    /\ user_input' \in TextInputs
    /\ UNCHANGED <<recorderValue, uploadValue, uploadRuns>>

\* The user records a new sample with the recorder of line 278.
RecordAudio ==
    /\ BeginRun
    /\ Rendered("recorder")
    /\ submissions < MaxSubmissions
    /\ submissions' = submissions + 1
    /\ clicked' = FALSE /\ submit' = FALSE /\ user_input' = <<>>
    /\ recorderValue' \in Samples \ {recorderValue}
    /\ UNCHANGED <<uploadValue, uploadRuns>>

\* The user puts a file into the uploader of line 259, or removes it.
ChangeUpload ==
    /\ BeginRun
    /\ Rendered("uploader")
    /\ submissions < MaxSubmissions
    /\ submissions' = submissions + 1
    /\ clicked' = FALSE /\ submit' = FALSE /\ user_input' = <<>>
    /\ uploadValue' \in (UploadFiles \cup {None}) \ {uploadValue}
    /\ uploadRuns' = 0
    /\ UNCHANGED recorderValue

\* Lines 55-62 without the st.stop() of line 62.
StartupNoStop ==
    /\ pc = "startup"
    /\ LET k == get_gemini_key(envKey, secretsKey)
       IN /\ keyLookups' = k.lookups
          /\ rendered' = IF k.key = None THEN <<"error no key">> ELSE rendered
          /\ pc' = "gate"
    /\ UNCHANGED <<priceVars, listVars, agentVars, lockVars, procVars, shown, sessionVars,
                   clicked, submit, user_input,
                   audio_bytes, lastExit, submissions, logVars>>

\* Lines 55-62: the key is looked up; without one the run ends at st.stop().
Startup ==
    /\ pc = "startup"
    /\ LET k == get_gemini_key(envKey, secretsKey)
       IN /\ keyLookups' = k.lookups
          /\ IF k.key = None
             THEN /\ rendered' = <<"error no key">>
                  /\ pc' = "idle"
                  /\ lastExit' = "stopped_nokey"
             ELSE /\ pc' = "gate"
                  /\ UNCHANGED <<rendered, lastExit>>
    /\ UNCHANGED <<priceVars, listVars, agentVars, lockVars, procVars, shown, sessionVars,
                   clicked, submit, user_input,
                   audio_bytes, submissions, logVars>>

\* Lines 208-223 without the st.stop() of line 224.
GateClosedNoStop ==
    /\ pc = "gate"
    /\ audio_enabled # "True"
    /\ ~clicked
    /\ audio_enabled' = "False"
    /\ rendered' = rendered \o <<"title", "button", "info enable">>
    /\ pc' = "form"
    /\ UNCHANGED <<priceVars, listVars, agentVars, lockVars, procVars, shown, hasHistory,
                   history, last_audio_hash,
                   recorderValue, uploadValue, clicked, submit, user_input, audio_bytes,
                   keyLookups, lastExit, submissions, logVars>>

\* Lines 208-224, the button not clicked: the run ends at st.stop().
GateClosed ==
    /\ pc = "gate"
    /\ audio_enabled # "True"
    /\ ~clicked
    /\ audio_enabled' = "False"
    /\ rendered' = rendered \o <<"title", "button", "info enable">>
    /\ pc' = "idle"
    /\ lastExit' = "stopped_gate"
    /\ UNCHANGED <<priceVars, listVars, agentVars, lockVars, procVars, shown, hasHistory,
                   history, last_audio_hash,
                   recorderValue, uploadValue, clicked, submit, user_input, audio_bytes,
                   keyLookups, submissions, logVars>>

\* Lines 208-221, the button clicked: the flag is set and st.rerun() starts
\* the script again.
GateEnable ==
    /\ pc = "gate"
    /\ audio_enabled # "True"
    /\ clicked
    /\ audio_enabled' = "True"
    /\ clicked' = FALSE
    /\ rendered' = <<>>
    /\ keyLookups' = <<>>
    /\ pc' = "startup"
    /\ UNCHANGED <<priceVars, listVars, agentVars, lockVars, procVars, shown, hasHistory,
                   history, last_audio_hash,
                   recorderValue, uploadValue, submit, user_input, audio_bytes,
                   lastExit, submissions, logVars>>

\* Lines 208-228 with audio enabled.
GateOpen ==
    /\ pc = "gate"
    /\ audio_enabled = "True"
    /\ rendered' = rendered \o <<"title", "hint">>
    /\ hasHistory' = TRUE
    /\ history' = IF hasHistory THEN history ELSE <<>>
    /\ pc' = "form"
    /\ UNCHANGED <<priceVars, listVars, agentVars, lockVars, procVars, shown, audio_enabled,
                   last_audio_hash,
                   recorderValue, uploadValue, clicked, submit, user_input, audio_bytes,
                   keyLookups, lastExit, submissions, logVars>>

\* Lines 231-245 without the strip() of lines 239 and 240.
FormNoStrip ==
    /\ pc = "form"
    /\ rendered' = Append(rendered, "form")
    /\ IF submit /\ user_input # <<>>
       THEN /\ history' = append_history(history, "You", user_input)
            /\ agentInFlight' = agentInFlight + 1
            /\ pc' = "form_agent"
       ELSE /\ pc' = "voice"
            /\ UNCHANGED <<history, agentInFlight>>
    /\ UNCHANGED <<priceVars, listVars, agentVars, lockVars, procVars, shown, audio_enabled,
                   hasHistory, last_audio_hash,
                   recorderValue, uploadValue, clicked, submit, user_input, audio_bytes,
                   keyLookups, lastExit, submissions, agentCalls, recogCalls, failedTurns,
                   processed, uploadRuns, synthFailed, calls, atStart, recogFailed>>

\* Lines 231-245: the form, the user's turn of a submission with text, and
\* the start of the agent call for it.
Form ==
    /\ pc = "form"
    /\ rendered' = Append(rendered, "form")
    /\ IF submit /\ user_input # <<>> /\ Strip(user_input) # <<>>
       THEN /\ history' = append_history(history, "You", Strip(user_input))
            /\ agentInFlight' = agentInFlight + 1
            /\ pc' = "form_agent"
       ELSE /\ pc' = "voice"
            /\ UNCHANGED <<history, agentInFlight>>
    /\ UNCHANGED <<priceVars, listVars, agentVars, lockVars, procVars, shown, audio_enabled,
                   hasHistory, last_audio_hash,
                   recorderValue, uploadValue, clicked, submit, user_input, audio_bytes,
                   keyLookups, lastExit, submissions, agentCalls, recogCalls, failedTurns,
                   processed, uploadRuns, synthFailed, calls, atStart, recogFailed>>

\* Lines 243-248 with a call that is started and not awaited: the run goes on
\* while the call is in flight.
FormAgentNoWait ==
    /\ pc = "form_agent"
    /\ \E a \in AgentOutcomes :
        /\ history' = append_history(history, "Agent",
                        IF a.kind = "reply" THEN a.text ELSE AgentErrorText(a.msg))
        /\ failedTurns' = IF a.kind = "raises"
                          THEN failedTurns \cup {<<Len(history), a.msg>>}
                          ELSE failedTurns
        /\ calls' = Append(calls, <<"agent", Strip(user_input), a.kind>>)
    /\ agentCalls' = agentCalls + 1
    /\ pc' = "form_speak"
    /\ UNCHANGED <<priceVars, listVars, agentVars, lockVars, procVars, shown, audio_enabled,
                   hasHistory, last_audio_hash,
                   recorderValue, uploadValue, clicked, submit, user_input, audio_bytes,
                   rendered, keyLookups, lastExit, submissions, recogCalls, processed,
                   uploadRuns, synthFailed, atStart, agentInFlight, recogFailed>>

\* Lines 243-248: the agent call returns or raises, its error is caught, and
\* the agent's turn is appended.
FormAgent ==
    /\ pc = "form_agent"
    /\ \E a \in AgentOutcomes :
        /\ history' = append_history(history, "Agent",
                        IF a.kind = "reply" THEN a.text ELSE AgentErrorText(a.msg))
        /\ failedTurns' = IF a.kind = "raises"
                          THEN failedTurns \cup {<<Len(history), a.msg>>}
                          ELSE failedTurns
        /\ calls' = Append(calls, <<"agent", Strip(user_input), a.kind>>)
    /\ agentCalls' = agentCalls + 1
    /\ agentInFlight' = agentInFlight - 1
    /\ pc' = "form_speak"
    /\ UNCHANGED <<priceVars, listVars, agentVars, lockVars, procVars, shown, audio_enabled,
                   hasHistory, last_audio_hash,
                   recorderValue, uploadValue, clicked, submit, user_input, audio_bytes,
                   rendered, keyLookups, lastExit, submissions, recogCalls, processed,
                   uploadRuns, synthFailed, atStart, recogFailed>>

\* Line 250: an exception of speak_text_background would end the run.
FormSpeak ==
    /\ pc = "form_speak"
    /\ \E o \in SynthOutcomes :
        LET r == speak_text_background(o)
        IN /\ synthFailed' = (synthFailed \/ SynthFails(o))
           /\ calls' = Append(calls, <<"speak", history[Len(history)][2],
                                       IF r.raised THEN "raises" ELSE "returns">>)
           /\ IF r.raised
              THEN /\ rendered' = Append(rendered, "exception")
                   /\ pc' = "idle"
                   /\ lastExit' = "uncaught synthesis error"
              ELSE /\ rendered' = rendered \o r.out
                   /\ pc' = "voice"
                   /\ UNCHANGED lastExit
    /\ UNCHANGED <<priceVars, listVars, agentVars, lockVars, procVars, shown, sessionVars,
                   clicked, submit, user_input,
                   audio_bytes, keyLookups, submissions, agentCalls, recogCalls,
                   failedTurns, processed, uploadRuns, atStart, agentInFlight, recogFailed>>

\* Lines 254-260: no recorder component, so the uploader; audio_bytes is not
\* bound on this path.
VoiceUpload ==
    /\ pc = "voice"
    /\ ~AUDIO_RECORDER_AVAILABLE
    /\ rendered' = rendered \o <<"voice header", "warning", "uploader">>
    /\ IF uploadValue # None
       THEN pc' = "upload_recog" /\ uploadRuns' = uploadRuns + 1
       ELSE pc' = "audio_check" /\ UNCHANGED uploadRuns
    /\ UNCHANGED <<priceVars, listVars, agentVars, lockVars, procVars, shown, sessionVars,
                   clicked, submit, user_input,
                   audio_bytes, keyLookups, lastExit, submissions, agentCalls, recogCalls,
                   failedTurns, processed, synthFailed, calls, atStart, agentInFlight,
                   recogFailed>>

\* Lines 254-257 and 278: the recorder component gives audio_bytes.
VoiceRecorder ==
    /\ pc = "voice"
    /\ AUDIO_RECORDER_AVAILABLE
    /\ rendered' = rendered \o <<"voice header", "recorder">>
    /\ audio_bytes' = recorderValue
    /\ pc' = "audio_check"
    /\ UNCHANGED <<priceVars, listVars, agentVars, lockVars, procVars, shown, sessionVars,
                   clicked, submit, user_input,
                   keyLookups, lastExit, submissions, logVars>>

\* The recognition of a sample inside the try of a voice handler: the user's
\* turn is appended and the agent call for it starts, or the except clause
\* shows the error.
RecogniseStep(here, okPc, failPc) ==
    /\ pc = here
    /\ recogCalls' = recogCalls + 1
    /\ \E r \in RecogOutcomes :
        /\ calls' = Append(calls, <<"recognize", <<"audio">>, r.kind>>)
        /\ IF r.kind = "text"
           THEN /\ history' = append_history(history, "You", r.text)
                /\ agentInFlight' = agentInFlight + 1
                /\ pc' = okPc
                /\ UNCHANGED <<rendered, recogFailed>>
           ELSE /\ rendered' = Append(rendered, "error voice recognition failed")
                /\ recogFailed' = IF audio_bytes \in Samples
                                  THEN recogFailed \cup {Hash(audio_bytes)}
                                  ELSE recogFailed
                /\ pc' = failPc
                /\ UNCHANGED <<history, agentInFlight>>
    /\ UNCHANGED <<priceVars, listVars, agentVars, lockVars, procVars, shown, audio_enabled,
                   hasHistory, last_audio_hash,
                   recorderValue, uploadValue, clicked, submit, user_input, audio_bytes,
                   keyLookups, lastExit, submissions, agentCalls, failedTurns, processed,
                   uploadRuns, synthFailed, atStart>>

\* The agent call inside the try of a voice handler: an exception of
\* run_agent_sync goes to the handler's except clause.
VoiceAgentStep(here, okPc, failPc) ==
    /\ pc = here
    /\ agentCalls' = agentCalls + 1
    /\ agentInFlight' = agentInFlight - 1
    /\ \E a \in AgentOutcomes :
        /\ calls' = Append(calls, <<"agent", history[Len(history)][2], a.kind>>)
        /\ IF a.kind = "reply"
           THEN /\ history' = append_history(history, "Agent", a.text)
                /\ pc' = okPc
                /\ UNCHANGED <<rendered, failedTurns>>
           ELSE /\ rendered' = Append(rendered, "error voice recognition failed")
                /\ failedTurns' = failedTurns \cup {<<Len(history), a.msg>>}
                /\ pc' = failPc
                /\ UNCHANGED history
    /\ UNCHANGED <<priceVars, listVars, agentVars, lockVars, procVars, shown, audio_enabled,
                   hasHistory, last_audio_hash,
                   recorderValue, uploadValue, clicked, submit, user_input, audio_bytes,
                   keyLookups, lastExit, submissions, recogCalls, processed, uploadRuns,
                   synthFailed, atStart, recogFailed>>

\* speak_text_background inside the try of a voice handler.
VoiceSpeakStep(here, nextPc) ==
    /\ pc = here
    /\ \E o \in SynthOutcomes :
        LET r == speak_text_background(o)
        IN /\ synthFailed' = (synthFailed \/ SynthFails(o))
           /\ calls' = Append(calls, <<"speak", history[Len(history)][2],
                                       IF r.raised THEN "raises" ELSE "returns">>)
           /\ rendered' = IF r.raised
                          THEN Append(rendered, "error voice recognition failed")
                          ELSE rendered \o r.out
    /\ pc' = nextPc
    /\ UNCHANGED <<priceVars, listVars, agentVars, lockVars, procVars, shown, sessionVars,
                   clicked, submit, user_input,
                   audio_bytes, keyLookups, lastExit, submissions, agentCalls, recogCalls,
                   failedTurns, processed, uploadRuns, atStart, agentInFlight, recogFailed>>

\* Lines 261-269 and 275-276.
UploadRecog == RecogniseStep("upload_recog", "upload_agent", "audio_check")

\* Lines 270-272 and 275-276.
UploadAgent == VoiceAgentStep("upload_agent", "upload_speak", "audio_check")

\* Line 273.
UploadSpeak == VoiceSpeakStep("upload_speak", "audio_check")

\* Lines 280-290: the name audio_bytes is read; a recording whose hash is the
\* stored one is skipped, another one is marked and handled.
AudioCheck ==
    /\ pc = "audio_check"
    /\ IF audio_bytes = "undefined"
       THEN /\ rendered' = Append(rendered, "exception")
            /\ pc' = "idle"
            /\ lastExit' = "uncaught NameError"
            /\ UNCHANGED <<last_audio_hash, processed>>
       ELSE IF audio_bytes = None
       THEN /\ pc' = "display"
            /\ UNCHANGED <<rendered, lastExit, last_audio_hash, processed>>
       ELSE IF last_audio_hash = Hash(audio_bytes)
       THEN /\ rendered' = Append(rendered, "info already processed")
            /\ pc' = "display"
            /\ UNCHANGED <<lastExit, last_audio_hash, processed>>
       ELSE /\ last_audio_hash' = Hash(audio_bytes)
            /\ processed' = Append(processed, Hash(audio_bytes))
            /\ pc' = "rec_recog"
            /\ UNCHANGED <<rendered, lastExit>>
    /\ UNCHANGED <<priceVars, listVars, agentVars, lockVars, procVars, shown, audio_enabled,
                   hasHistory, history,
                   recorderValue, uploadValue, clicked, submit, user_input, audio_bytes,
                   keyLookups, submissions, agentCalls, recogCalls, failedTurns,
                   uploadRuns, synthFailed, calls, atStart, agentInFlight, recogFailed>>

\* Lines 293-304 and 314-315.
RecRecog == RecogniseStep("rec_recog", "rec_agent", "display")

\* Lines 305-307 and 314-315.
RecAgent == VoiceAgentStep("rec_agent", "rec_speak", "display")

\* Line 310.
RecSpeak == VoiceSpeakStep("rec_speak", "display")

\* Lines 318-326: the conversation display ends the run.
Display ==
    /\ pc = "display"
    /\ rendered' = Append(rendered, "conversation")
    /\ shown' = history
    /\ pc' = "idle"
    /\ lastExit' = "done"
    /\ UNCHANGED <<priceVars, listVars, agentVars, lockVars, procVars, sessionVars, clicked,
                   submit, user_input,
                   audio_bytes, keyLookups, submissions, logVars>>

Next ==
    \/ LoadPage \/ ClickEnable \/ SubmitText \/ RecordAudio \/ ChangeUpload
    \/ Startup \/ GateClosed \/ GateEnable \/ GateOpen
    \/ Form \/ FormAgent \/ FormSpeak
    \/ VoiceUpload \/ UploadRecog \/ UploadAgent \/ UploadSpeak
    \/ VoiceRecorder \/ AudioCheck \/ RecRecog \/ RecAgent \/ RecSpeak
    \/ Display

Spec == InitUI /\ [][Next]_vars

\* ---- claims about the script
KeyPresent == envKey = "set" \/ secretsKey = "set"
Uncaught == {"uncaught NameError", "uncaught synthesis error"}

\* C3 as stated: a recording whose hash equals the hash of any recording
\* handled earlier in the session is a no-op, so no hash is handled twice.
C3_NoSampleHandledTwice ==
    \A i, j \in 1..Len(processed) : i < j => processed[i] # processed[j]

\* C4 as stated: on the upload path, a rerun that finds the same uploaded file
\* appends no conversation entry and makes no agent call for it: in the
\* second and later runs over the file the handler never gets past recognition.
C4_UploadHandledOnce ==
    uploadRuns >= 2 => pc \notin {"upload_agent", "upload_speak"}

\* C5 as stated: with the key present and audio enabled every run reaches the
\* conversation display, with the recorder component or without it, and no
\* run ends with an uncaught error.
C5_EveryRunReachesDisplay ==
    /\ lastExit \notin Uncaught
    /\ (pc = "idle" /\ lastExit # "none" /\ KeyPresent /\ audio_enabled = "True")
           => (lastExit = "done" /\ Rendered("conversation"))

\* C6: without a key in the environment and in the secrets file every run
\* stops at the startup check: after the error message nothing is rendered,
\* no session state is set, nothing is appended and no call is made; the key
\* is looked up in the environment first and in the secrets only after that.
C6_NoKeyHalts ==
    /\ ~KeyPresent =>
        /\ pc \in {"idle", "startup"}
        /\ rendered \in {<<>>, <<"error no key">>}
        /\ lastExit \in {"none", "stopped_nokey"}
        /\ (pc = "idle" /\ lastExit = "stopped_nokey") => rendered = <<"error no key">>
        /\ audio_enabled = "unset" /\ ~hasHistory /\ history = <<>>
        /\ agentCalls = 0 /\ recogCalls = 0
    /\ pc \notin {"idle", "startup"} => KeyPresent
    /\ keyLookups # <<>> =>
        /\ keyLookups[1] = "env"
        /\ Len(keyLookups) <= 2
        /\ Len(keyLookups) = 2 => (keyLookups[2] = "secrets" /\ envKey # "set")
        /\ Len(keyLookups) = 1 => envKey = "set"

\* C6 witness: a run that ended at the startup check, the environment holding
\* an empty value and the secrets lookup failing.
C6_Witness ==
    /\ pc = "idle"
    /\ lastExit = "stopped_nokey"
    /\ envKey = "empty"
    /\ secretsKey = "raises"
    /\ keyLookups = <<"env", "secrets">>

EndsWith(s, t) == Len(t) <= Len(s) /\ SubSeq(s, Len(s) - Len(t) + 1, Len(s)) = t

\* C9 as stated: on every input path, an agent call that raises after the
\* user's turn was appended leaves an 'Agent' entry with the error text right
\* after that turn.
C9_AgentFailureInHistory ==
    \A f \in failedTurns :
        /\ Len(history) > f[1]
        /\ history[f[1] + 1][1] = "Agent"
        /\ EndsWith(history[f[1] + 1][2], f[2])

\* C10 as stated: speak_text_background never raises, the agent's reply is in
\* the history before synthesis starts, and a run in which a synthesis failed
\* still reaches the conversation display.
C10_SynthesisBestEffort ==
    /\ \A o \in SynthOutcomes : ~speak_text_background(o).raised
    /\ lastExit # "uncaught synthesis error"
    /\ pc \in {"form_speak", "upload_speak", "rec_speak"} =>
           (history # <<>> /\ history[Len(history)][1] = "Agent")
    /\ (pc = "idle" /\ synthFailed) => (lastExit = "done" /\ Rendered("conversation"))

\* Every entry of h is at the same index of g.
IsPrefix(h, g) == Len(h) <= Len(g) /\ SubSeq(g, 1, Len(h)) = h

\* C12: the history is append-only: every step keeps the entries it finds at
\* their index with their role and text and adds entries only at the end, and
\* every entry's role is 'You' or 'Agent'.
C12_AppendOnly ==
    /\ [](\A i \in 1..Len(history) : history[i][1] \in {"You", "Agent"})
    /\ [][IsPrefix(history, history')]_vars

\* C12 witness: a history of two turns at the end of a run, the first of them
\* with a failed agent call.
C12_Witness ==
    /\ pc = "idle"
    /\ Len(history) >= 4
    /\ history[2][2] = AgentErrorText(<<"quota exceeded">>)

SpeakPcs == {"form_speak", "upload_speak", "rec_speak"}
AgentPcs == {"form_agent", "upload_agent", "rec_agent"}

\* C11 as stated: in every run the new 'Agent' entry is on the page before
\* speak_text_background is called for it.
C11_ReplyRenderedBeforeSpeech ==
    pc \in SpeakPcs =>
        /\ Len(shown) = Len(history)
        /\ shown[Len(history)] = history[Len(history)]

IsAgentCall(c) == c[1] = "agent"
IsSpeakCall(c) == c[1] = "speak"
IsRecogniseFailure(c) == c[1] = "recognize" /\ c[3] = "raises"

\* What the form handler of this run has appended, and its agent calls.
FormHandles == submit /\ Strip(user_input) # <<>>
FormEntries == IF FormHandles THEN 2 ELSE 0
FormAgentCalls == IF FormHandles THEN 1 ELSE 0

\* C15 as stated: a run in which the recognition of a recorder sample raised
\* appends no entry and makes no agent call for the sample and shows the
\* error, and no later run recognises a sample whose recognition has raised.
C15_RecognitionFailsClosed ==
    /\ (AUDIO_RECORDER_AVAILABLE /\ pc \in {"display", "idle"}
            /\ SelectSeq(calls, IsRecogniseFailure) # <<>>) =>
        /\ Len(history) = atStart + FormEntries
        /\ Len(SelectSeq(calls, IsAgentCall)) = FormAgentCalls
        /\ Rendered("error voice recognition failed")
    /\ pc = "rec_recog" => Hash(audio_bytes) \notin recogFailed

C17_FormSubmission ==
    (pc = "voice" /\ submit) =>
        IF Strip(user_input) = <<>>
        THEN Len(history) = atStart /\ calls = <<>>
        ELSE /\ Len(history) = atStart + 2
             /\ history[atStart + 1] = <<"You", Strip(user_input)>>
             /\ history[atStart + 2][1] = "Agent"
             /\ \E a \in AgentOutcomes :
                    /\ SelectSeq(calls, IsAgentCall) = <<<<"agent", Strip(user_input), a.kind>>>>
                    /\ history[atStart + 2][2] =
                           IF a.kind = "reply" THEN a.text ELSE AgentErrorText(a.msg)
             /\ Len(SelectSeq(calls, IsSpeakCall)) = 1

\* C17 witness: the handler has ended for a text with a leading blank, the
\* agent call having raised.
C17_Witness ==
    /\ pc = "voice"
    /\ submit
    /\ user_input = <<" ", "b">>
    /\ history[Len(history)] = <<"Agent", AgentErrorText(<<"quota exceeded">>)>>
    /\ history[Len(history) - 1] = <<"You", <<"b">>>>

Alternates(h) ==
    /\ Len(h) % 2 = 0
    /\ \A i \in 1..Len(h) : h[i][1] = IF i % 2 = 1 THEN "You" ELSE "Agent"

\* C18 as stated: at the end of every run the history has even length and
\* alternates between a 'You' entry and the 'Agent' entry answering it.
C18_StrictAlternation == pc = "idle" => Alternates(history)

\* C19: while audio_enabled is not true every run ends at the gate, with no
\* input handled, no entry appended and no agent call made; the flag becomes
\* true only at the gate with the button clicked, and once true it stays true.
C19_GateHolds ==
    /\ [](audio_enabled # "True" =>
            /\ pc \in {"idle", "startup", "gate"}
            /\ lastExit \in {"none", "stopped_nokey", "stopped_gate"}
            /\ ~hasHistory /\ history = <<>>
            /\ agentCalls = 0 /\ recogCalls = 0 /\ calls = <<>>
            /\ ~Rendered("form") /\ ~Rendered("recorder") /\ ~Rendered("uploader"))
    /\ [][/\ audio_enabled = "True" => audio_enabled' = "True"
          /\ (audio_enabled # "True" /\ audio_enabled' = "True") => (pc = "gate" /\ clicked)
          /\ (pc = "gate" /\ audio_enabled # "True" /\ ~clicked) =>
                 (pc' = "idle" /\ lastExit' = "stopped_gate")]_vars

\* C19 witness: the button was clicked after a run that had stopped at the
\* gate, the flag has become true and the page was used after that.
C19_Witness ==
    /\ audio_enabled = "True"
    /\ pc = "idle"
    /\ lastExit = "done"
    /\ history # <<>>

\* ---- claims about the calls of get_crypto_price
\* C14: in every call of get_crypto_price, the first one and a later one for
\* symbols requested before, the network calls issued so far are one per
\* token handled so far, in input order, each for the trimmed, upper-cased
\* token, whatever the outcomes of the calls; a finished call of the function
\* has issued exactly one network call per input token.
C14_OneCallPerToken ==
    /\ ppc \in {"loop", "done"} =>
        /\ Len(priceCalls) = idx
        /\ idx <= Len(InputTokens)
        /\ \A k \in 1..Len(priceCalls) : priceCalls[k][1] = Upper(Strip(InputTokens[k]))
    /\ ppc = "done" => Len(priceCalls) = Len(InputTokens)

\* C14 witness: a later call of the function has finished for an argument
\* that names one symbol twice, the first network call of it having failed.
C14_Witness ==
    /\ ppc = "done"
    /\ priceRequests = 2
    /\ Len(priceCalls) >= 2
    /\ priceCalls[1][1] = priceCalls[2][1]
    /\ priceCalls[1][1] \in fetched
    /\ IsFailure(priceCalls[1][2])

\* ------------------------------------------------------------ run_agent_sync
\* The items of result.new_items: a message whose raw_item.content[0].text is
\* its text, a tool call whose raw_item has no content, and a message whose
\* content list is empty.
Texts == {<<"the price is">>, <<"anything else?">>}
Items == [kind : {"message"}, text : Texts] \cup [kind : {"tool_call", "empty_message"}]
ItemSeqs == UNION {[1..n -> Items] : n \in 0..MaxItems}

\* What Runner.run of line 135 does: it returns a result or raises.
RunnerOutcomes ==
    [kind : {"returns"}, items : ItemSeqs] \cup [kind : {"raises"}, msg : {"quota exceeded"}]

\* What loop.shutdown_asyncgens() of line 149 does.
ShutdownOutcomes == {"returns", "raises"}

\* item.raw_item.content[0].text inside the try of lines 137-140.
Extract(item) ==
    IF item.kind = "message" THEN [raised |-> FALSE, text |-> item.text]
    ELSE [raised |-> TRUE, text |-> <<>>]

\* Lines 148-151: the try around shutdown_asyncgens catches its exception.
ShutdownGuarded(sd) == [raised |-> FALSE]

\* The order of line 136 without reversed().
NotReversed(items) == items

\* reversed(result.new_items) of line 136.
Reversed(items) == [i \in 1..Len(items) |-> items[Len(items) + 1 - i]]

InitAgent ==
    /\ PriceIdle
    /\ ListIdle
    /\ UIIdle
    /\ LockIdle
    /\ apc = "start"
    /\ new_items = None
    /\ scanItems = <<>>
    /\ response = None
    /\ loopState = "none"
    /\ agentExc = None

\* Lines 143-145: the event loop is created and set.
AgentOpenLoop ==
    /\ apc = "start"
    /\ loopState' = "open"
    /\ apc' = "run"
    /\ UNCHANGED <<priceVars, listVars, uiVars, lockVars, new_items, scanItems, response,
                   agentExc>>

\* Lines 135-136 inside run_until_complete: the agent run returns its items,
\* or its exception leaves _call and goes to the finally clause.
AgentRun ==
    /\ apc = "run"
    /\ \E o \in RunnerOutcomes :
        IF o.kind = "returns"
        THEN /\ new_items' = o.items
             /\ scanItems' = Reversed(o.items)
             /\ apc' = "scan"
             /\ UNCHANGED agentExc
        ELSE /\ agentExc' = o.msg
             /\ apc' = "finally"
             /\ UNCHANGED <<new_items, scanItems>>
    /\ UNCHANGED <<priceVars, listVars, uiVars, lockVars, response, loopState>>

\* One turn of the for loop of lines 136-140, or line 141 after its end.
AgentScan ==
    /\ apc = "scan"
    /\ IF scanItems = <<>>
       THEN /\ response' = <<"Sorry, no response.">>
            /\ apc' = "finally"
            /\ UNCHANGED scanItems
       ELSE LET e == Extract(Head(scanItems))
            IN IF e.raised
               THEN /\ scanItems' = Tail(scanItems)
                    /\ UNCHANGED <<response, apc>>
               ELSE /\ response' = e.text
                    /\ apc' = "finally"
                    /\ UNCHANGED scanItems
    /\ UNCHANGED <<priceVars, listVars, uiVars, lockVars, new_items, loopState, agentExc>>

\* Lines 147-153: an exception of shutdown_asyncgens is dropped, the loop is
\* closed, and the function returns or lets the exception of the run go on.
AgentFinally ==
    /\ apc = "finally"
    /\ \E sd \in ShutdownOutcomes :
        IF ShutdownGuarded(sd).raised
        THEN /\ apc' = "raised"
             /\ UNCHANGED loopState
        ELSE /\ loopState' = "closed"
             /\ apc' = IF agentExc = None THEN "done" ELSE "raised"
    /\ UNCHANGED <<priceVars, listVars, uiVars, lockVars, new_items, scanItems, response,
                   agentExc>>

NextAgent == AgentOpenLoop \/ AgentRun \/ AgentScan \/ AgentFinally

SpecAgent == InitAgent /\ [][NextAgent]_vars

\* ---- claims about run_agent_sync
HasText(item) == item.kind = "message"
WithText(items) == {i \in 1..Len(items) : HasText(items[i])}
LastWithText(items) == CHOOSE i \in WithText(items) : \A j \in WithText(items) : j <= i

\* C20: run_agent_sync returns the text of the last of the new items that
\* has a text, and 'Sorry, no response.' when none has one; the event loop it
\* created is closed when it returns and when the agent run has raised, and
\* it is open only in between.
C20_LastTextAndLoopClosed ==
    /\ apc = "done" =>
        /\ loopState = "closed"
        /\ agentExc = None
        /\ response = IF WithText(new_items) = {} THEN <<"Sorry, no response.">>
                      ELSE new_items[LastWithText(new_items)].text
    /\ apc = "raised" => (loopState = "closed" /\ agentExc # None)
    /\ loopState = "open" <=> apc \in {"run", "scan", "finally"}

\* C20 witness: the function has returned for three new items, two messages
\* with different texts and a tool call after them.
C20_Witness ==
    /\ apc = "done"
    /\ Len(new_items) = 3
    /\ HasText(new_items[1]) /\ HasText(new_items[2]) /\ ~HasText(new_items[3])
    /\ new_items[1].text # new_items[2].text
    /\ response = new_items[2].text

\* ------------------------------------------------- overlapping script runs
\* Streamlit runs the script from its first line in a new namespace for every
\* run, and the runs of different sessions are threads of one process. Run r
\* belongs to session r.
Runs == {1, 2}
LockIds == 1..Cardinality(Runs)
InSection == {"check", "append", "release"}

\* threading.Lock() of line 125: an object that did not exist before.
NewLock == 1 + Cardinality({r \in Runs : lockOf[r] # 0})

InitLock ==
    /\ PriceIdle
    /\ ListIdle
    /\ UIIdle
    /\ AgentIdle
    /\ rpc = [r \in Runs |-> "start"]
    /\ lockOf = [r \in Runs |-> 0]
    /\ holder = [l \in LockIds |-> 0]
    /\ appended = [r \in Runs |-> 0]
    /\ hasList = [r \in Runs |-> FALSE]

\* Line 125: the run binds _SESSION_LOCK in its namespace to a new lock.
RunDefine(r) ==
    /\ rpc[r] = "start"
    /\ lockOf' = [lockOf EXCEPT ![r] = NewLock]
    /\ rpc' = [rpc EXCEPT ![r] = "ready"]
    /\ UNCHANGED <<priceVars, listVars, uiVars, agentVars, holder, appended, hasList>>

\* Line 128: append_history enters `with _SESSION_LOCK` when the lock its
\* run's name is bound to is free.
LockAcquire(r) ==
    /\ rpc[r] = "ready"
    /\ appended[r] < MaxAppends
    /\ holder[lockOf[r]] = 0
    /\ holder' = [holder EXCEPT ![lockOf[r]] = r]
    /\ rpc' = [rpc EXCEPT ![r] = "check"]
    /\ UNCHANGED <<priceVars, listVars, uiVars, agentVars, lockOf, appended, hasList>>

\* Lines 129-130.
LockCheckInit(r) ==
    /\ rpc[r] = "check"
    /\ hasList' = [hasList EXCEPT ![r] = TRUE]
    /\ rpc' = [rpc EXCEPT ![r] = "append"]
    /\ UNCHANGED <<priceVars, listVars, uiVars, agentVars, lockOf, holder, appended>>

\* Line 131.
LockAppend(r) ==
    /\ rpc[r] = "append"
    /\ appended' = [appended EXCEPT ![r] = @ + 1]
    /\ rpc' = [rpc EXCEPT ![r] = "release"]
    /\ UNCHANGED <<priceVars, listVars, uiVars, agentVars, lockOf, holder, hasList>>

\* The end of the with block of line 128.
LockRelease(r) ==
    /\ rpc[r] = "release"
    /\ holder' = [holder EXCEPT ![lockOf[r]] = 0]
    /\ rpc' = [rpc EXCEPT ![r] = "ready"]
    /\ UNCHANGED <<priceVars, listVars, uiVars, agentVars, lockOf, appended, hasList>>

\* The script run ends.
RunEnd(r) ==
    /\ rpc[r] = "ready"
    /\ rpc' = [rpc EXCEPT ![r] = "end"]
    /\ UNCHANGED <<priceVars, listVars, uiVars, agentVars, lockOf, holder, appended, hasList>>

NextLock ==
    \E r \in Runs :
        \/ RunDefine(r) \/ LockAcquire(r) \/ LockCheckInit(r)
        \/ LockAppend(r) \/ LockRelease(r) \/ RunEnd(r)

SpecLock == InitLock /\ [][NextLock]_vars

\* ---- claims about the lock
\* C13 as stated: any two executions of append_history in the process, those
\* of overlapping script runs included, use the same lock object, and at
\* most one of them is inside the check-initialise-append section.
C13_SingleLock ==
    /\ \A r1, r2 \in Runs :
         (lockOf[r1] # 0 /\ lockOf[r2] # 0) => lockOf[r1] = lockOf[r2]
    /\ Cardinality({r \in Runs : rpc[r] \in InSection}) <= 1

====
